---- MODULE Spec2Model ----
(***************************************************************************)
(* Token ledger and payment reconciliation of the CulosAI backend:         *)
(*   routes/tokens.js     POST /tokens/spend, POST /tokens/add             *)
(*   routes/payments.js   POST /payments/create-payment-intent, /confirm   *)
(*   routes/webhooks.js   POST /api/webhooks/stripe and its three handlers *)
(*   routes/admin.js      PUT / DELETE /admin/token-packages/:id,          *)
(*                        POST /admin/users/:userId/tokens                 *)
(*   routes/upload.js     POST /images/generate and its completion callback*)
(*   services/aiProviderManager.js, aiProviders/mockProvider.js            *)
(*   services/notificationService.js, models/Notification.js               *)
(* Unless a specification says otherwise, every action is one whole        *)
(* request handler, run to completion (requests are handled one at a time  *)
(* and every database write succeeds).                                     *)
(***************************************************************************)
EXTENDS Integers, Sequences, FiniteSets, Bags, TLC

VARIABLES
    tokens,      \* User.tokens of every user
    ledger,      \* the Token collection: a bag of Token documents
    payments,    \* the Payment collection; payments[i] has payment-intent id i
    packages,    \* the TokenPackage collection (Null: no such document)
    stripe,      \* payments.js `stripe`: TRUE iff STRIPE_SECRET_KEY was set
    req,         \* the request handled last
    res,         \* the response it was given
    stripeCalls, \* the processor calls that request made
    images,        \* the Image collection; images[i] is the i-th created
    manager,       \* the AIProviderManager singleton
    notifications, \* the Notification collection
    inflight,      \* the handlers that have started and not yet returned
    quotes,        \* the calculateTokenCost calls made, with their results
    accounts       \* role and isActive of the User documents admins manage

\* the state outside the ledger and the payment records
services == <<images, manager, notifications, inflight, quotes, accounts>>

vars == <<tokens, ledger, payments, packages, stripe, req, res, stripeCalls,
          services>>

\* ---------------------------------------------------------------- bounds
MaxAmount == 2      \* largest amount a spend/add request carries
MaxLedger == 3      \* ledger entries kept
MaxPayments == 1    \* payment-intents the processor hands out
MaxBalance == 3     \* largest balance a credit without ledger entry leaves
MaxQuotes == 2      \* calculateTokenCost calls recorded
MaxInstances == 6   \* provider instances the manager constructs
MaxNotifications == 3  \* Notification documents created
MaxHandlers == 2    \* request handlers in flight at once
MaxOpenIntents == 2 \* Payment documents in runs about the purchase limit

\* ---------------------------------------------------------------- values
Null == "null"            \* an absent (null / undefined) string or reference
None == <<>>              \* an absent (null / undefined) number
Some(n) == <<n>>          \* a number that is present
Val(x) == x[1]
NoId == 0                 \* no payment / payment-intent referenced

Users == {"u1", "u2"}
Amounts == {None} \cup {Some(n) : n \in -1 .. MaxAmount}
Descriptions == {Null, "gen"}

NoReq == [op |-> "none", user |-> Null, id |-> NoId, kind |-> Null]
NoRes == [status |-> 0, message |-> ""]

\* op: the route; user: req.user; id: the payment-intent named; kind: the
\* package id (create, package routes) or the event type (webhook)
Request(op, user, id, kind) == [op |-> op, user |-> user, id |-> id, kind |-> kind]
Response(status, message) == [status |-> status, message |-> message]

\* a Token document as the handlers construct it
TokenDoc(user, type, amount, category, paymentId, packageId) ==
    [user |-> user, type |-> type, amount |-> amount, category |-> category,
     paymentId |-> paymentId, packageId |-> packageId]

\* `tokenTransaction.save()` of a new document
Insert(l, doc) == l (+) SetToBag({doc})

\* the Token documents of the ledger that satisfy a condition, counted
CountWhere(l, Cond(_)) ==
    BagCardinality([d \in {x \in DOMAIN l : Cond(x)} |-> l[d]])

RECURSIVE SumOver(_, _, _)
SumOver(S, l, u) ==
    IF S = {} THEN 0
    ELSE LET d == CHOOSE x \in S : TRUE
         IN  (IF d.user = u THEN d.amount * l[d] ELSE 0) + SumOver(S \ {d}, l, u)

\* sum of Token.amount over the ledger entries of user u
SumAmounts(l, u) == SumOver(DOMAIN l, l, u)

\* JS truthiness (`!x` is its negation) of a number and of a string
TruthyNum(x) == x # None /\ Val(x) # 0
Truthy(s) == s # Null /\ s # ""

\* ------------------------------------------------- tokens.js: POST /spend
\* `!amount || amount <= 0`
InvalidAmount(amount) == ~TruthyNum(amount) \/ Val(amount) <= 0

\* faulty variant: the balance check lets an overdraft of one through
SpendCheckOffByOne(balance, amount) == balance + 1 < amount
\* `user.tokens < amount`
InsufficientTokens(balance, amount) == balance < amount

\* faulty variant: the debit is recorded with a positive amount
SpendTokenUnsigned(user, amount) ==
    TokenDoc(user, "spend", amount, "ai_generation", NoId, Null)
\* `new Token({user, type: 'spend', amount: -amount, category, ...})`
SpendToken(user, amount) ==
    TokenDoc(user, "spend", -amount, "ai_generation", NoId, Null)

Spend(u, amount, description) ==
    /\ req' = Request("spend", u, NoId, Null)
    /\ UNCHANGED <<payments, packages, stripe, services>>
    /\ stripeCalls' = {}
    /\ IF InvalidAmount(amount)
       THEN /\ res' = Response(400, "Invalid amount")
            /\ UNCHANGED <<tokens, ledger>>
       ELSE IF ~Truthy(description)
       THEN /\ res' = Response(400, "Description is required")
            /\ UNCHANGED <<tokens, ledger>>
       ELSE IF InsufficientTokens(tokens[u], Val(amount))
       THEN /\ res' = Response(400, "Insufficient tokens")
            /\ UNCHANGED <<tokens, ledger>>
       ELSE /\ BagCardinality(ledger) < MaxLedger
            /\ ledger' = Insert(ledger, SpendToken(u, Val(amount)))
            /\ tokens' = [tokens EXCEPT ![u] = @ - Val(amount)]
            /\ res' = Response(200, "Tokens spent successfully")

\* --------------------------------------------------- tokens.js: POST /add
\* `new Token({user, type, amount, category, packageId, ...})`, defaults
AddToken(user, amount) ==
    TokenDoc(user, "bonus", amount, "admin_bonus", NoId, Null)

Add(u, amount, description) ==
    /\ req' = Request("add", u, NoId, Null)
    /\ UNCHANGED <<payments, packages, stripe, services>>
    /\ stripeCalls' = {}
    /\ IF InvalidAmount(amount)
       THEN /\ res' = Response(400, "Invalid amount")
            /\ UNCHANGED <<tokens, ledger>>
       ELSE IF ~Truthy(description)
       THEN /\ res' = Response(400, "Description is required")
            /\ UNCHANGED <<tokens, ledger>>
       ELSE /\ BagCardinality(ledger) < MaxLedger
            /\ ledger' = Insert(ledger, AddToken(u, Val(amount)))
            /\ tokens' = [tokens EXCEPT ![u] = @ + Val(amount)]
            /\ res' = Response(200, "Tokens added successfully")

\* ------------------------------------------ models/TokenPackage.js, Payment
PackageIds == {"pk1"}
RequestedPackageIds == PackageIds \cup {"pk0"}   \* "pk0": never a document
Times == {1, 2}                                   \* `new Date()` of a request
ProcessorStatuses == {"succeeded", "requires_payment_method"}
WebhookSecret == "whsec"                          \* STRIPE_WEBHOOK_SECRET
SigningKeys == {WebhookSecret, "forged"}          \* key a request was signed with
EventTypes ==
    {"payment_intent.succeeded", "payment_intent.payment_failed",
     "charge.dispute.created", "customer.created"}
IntentIds == 1 .. MaxPayments

\* a TokenPackage document (fields the handlers read)
Package(tk, bonus, active, expires, maxP) ==
    [tokens |-> tk, bonusTokens |-> bonus, isActive |-> active,
     expiresAt |-> expires, maxPurchases |-> maxP]

\* `TokenPackage.findById(id)`
FindPackage(id) == IF id \in DOMAIN packages THEN packages[id] ELSE None

\* `Payment.findOne({stripePaymentIntentId: id})`
FindPayment(id) == IF id \in 1..Len(payments) THEN Some(payments[id]) ELSE None

\* faulty variant: the lookup is not scoped to the requester
FindPaymentAnyUser(id, u) == FindPayment(id)
\* `Payment.findOne({stripePaymentIntentId: id, user: req.user._id})`
FindOwnPayment(id, u) ==
    IF id \in 1..Len(payments) /\ payments[id].user = u
    THEN Some(payments[id]) ELSE None

\* `Payment.countDocuments({user, packageId, status: 'succeeded'})`
CountPurchases(u, pk) ==
    Cardinality({i \in 1..Len(payments) :
        /\ payments[i].user = u
        /\ payments[i].packageId = pk
        /\ payments[i].status = "succeeded"})

\* faulty variant: `>` for `>=`
LimitReachedOffByOne(package, userPurchases) ==
    TruthyNum(package.maxPurchases) /\ userPurchases > Val(package.maxPurchases)
\* `package.maxPurchases` truthy and `userPurchases >= package.maxPurchases`
LimitReached(package, userPurchases) ==
    TruthyNum(package.maxPurchases) /\ userPurchases >= Val(package.maxPurchases)

\* `package.expiresAt && new Date() > package.expiresAt`
Expired(package, now) ==
    package.expiresAt # None /\ now > Val(package.expiresAt)

\* faulty variant: the bonus is left out of the credit
TotalTokensWithoutBonus(package) == package.tokens
\* `package.tokens + package.bonusTokens`
TotalTokens(package) == package.tokens + package.bonusTokens

\* (amount and currency, which no handler reads back, are left out)
\* `new Payment({user, packageId, stripePaymentIntentId, tokens, status:
\* 'pending', metadata: {baseTokens, bonusTokens, ...}})`
NewPayment(u, pk, intent, package) ==
    [user |-> u, packageId |-> pk, stripePaymentIntentId |-> intent,
     tokens |-> TotalTokens(package), status |-> "pending",
     baseTokens |-> package.tokens, bonusTokens |-> package.bonusTokens]

\* ------------------------- payments.js: POST /payments/create-payment-intent
\* faulty variant: the Payment is saved before the processor is called, so a
\* failed call leaves the record behind
CreatePaymentIntentRecordsFirst(u, packageId, now, processorUp) ==
    LET package == FindPackage(packageId)
        reject(status, message) ==
            /\ res' = Response(status, message)
            /\ stripeCalls' = {}
            /\ UNCHANGED payments
    IN
    /\ req' = Request("create", u, NoId, packageId)
    /\ UNCHANGED <<tokens, ledger, packages, stripe, services>>
    /\ IF ~stripe
       THEN reject(503, "Payment service is not configured")
       ELSE IF package = None \/ ~Val(package).isActive
       THEN reject(400, "Invalid or inactive package selected")
       ELSE IF Expired(Val(package), now)
       THEN reject(400, "Package has expired")
       ELSE IF LimitReached(Val(package), CountPurchases(u, packageId))
       THEN reject(400, "Purchase limit reached for this package")
       ELSE /\ stripeCalls' = {"paymentIntents.create"}
            /\ Len(payments) < MaxPayments
            /\ payments' = Append(payments,
                  NewPayment(u, packageId, Len(payments) + 1, Val(package)))
            /\ res' = IF processorUp THEN Response(200, "clientSecret")
                      ELSE Response(500, "Failed to create payment intent")
\* processorUp: whether stripe.paymentIntents.create returns (or throws);
\* most: how many Payment documents the run may hold
CreatePaymentIntentUpTo(most, u, packageId, now, processorUp) ==
    LET package == FindPackage(packageId)
        reject(status, message) ==
            /\ res' = Response(status, message)
            /\ stripeCalls' = {}
            /\ UNCHANGED payments
    IN
    /\ req' = Request("create", u, NoId, packageId)
    /\ UNCHANGED <<tokens, ledger, packages, stripe, services>>
    /\ IF ~stripe
       THEN reject(503, "Payment service is not configured")
       ELSE IF package = None \/ ~Val(package).isActive
       THEN reject(400, "Invalid or inactive package selected")
       ELSE IF Expired(Val(package), now)
       THEN reject(400, "Package has expired")
       ELSE IF LimitReached(Val(package), CountPurchases(u, packageId))
       THEN reject(400, "Purchase limit reached for this package")
       ELSE /\ stripeCalls' = {"paymentIntents.create"}
            /\ IF ~processorUp
               THEN /\ res' = Response(500, "Failed to create payment intent")
                    /\ UNCHANGED payments
               ELSE /\ Len(payments) < most
                    /\ payments' = Append(payments,
                          NewPayment(u, packageId, Len(payments) + 1, Val(package)))
                    /\ res' = Response(200, "clientSecret")

CreatePaymentIntent(u, packageId, now, processorUp) ==
    CreatePaymentIntentUpTo(MaxPayments, u, packageId, now, processorUp)

\* ------------------------------------------ payments.js: POST /payments/confirm
\* faulty variant: the double-processing guard is missing
AlreadyProcessedNever(payment) == FALSE
\* `payment.status === 'succeeded'`
AlreadyProcessed(payment) == payment.status = "succeeded"

\* `payment.packageId?._id` after populate('packageId')
PopulatedPackageId(payment) ==
    IF FindPackage(payment.packageId) = None THEN Null ELSE payment.packageId

\* the Token document of the confirm endpoint
ConfirmToken(u, payment) ==
    TokenDoc(u, "purchase", payment.tokens, "purchase",
             payment.stripePaymentIntentId, PopulatedPackageId(payment))

\* processorStatus: paymentIntent.status as retrieved from the processor
Confirm(u, paymentIntentId, processorStatus) ==
    LET payment == FindOwnPayment(paymentIntentId, u)
        reject(status, message) ==
            /\ res' = Response(status, message)
            /\ UNCHANGED <<tokens, ledger, payments>>
    IN
    /\ req' = Request("confirm", u, paymentIntentId, Null)
    /\ UNCHANGED <<packages, stripe, services>>
    /\ IF ~stripe
       THEN /\ stripeCalls' = {}
            /\ reject(503, "Payment service is not configured")
       ELSE /\ stripeCalls' = {"paymentIntents.retrieve"}
            /\ IF processorStatus # "succeeded"
               THEN reject(400, "Payment not completed")
               ELSE IF payment = None
               THEN reject(404, "Payment not found")
               ELSE IF AlreadyProcessed(Val(payment))
               THEN reject(400, "Payment already processed")
               ELSE /\ BagCardinality(ledger) < MaxLedger
                    /\ payments' = [payments EXCEPT
                          ![paymentIntentId].status = "succeeded"]
                    /\ tokens' = [tokens EXCEPT ![u] = @ + Val(payment).tokens]
                    /\ ledger' = Insert(ledger, ConfirmToken(u, Val(payment)))
                    /\ res' = Response(200, "Payment confirmed successfully")

\* ------------------------------------------- webhooks.js: POST /webhooks/stripe
\* faulty variant: the event is parsed without verifying its signature
ConstructEventUnverified(sigKey) == TRUE
\* `stripe.webhooks.constructEvent(body, sig, STRIPE_WEBHOOK_SECRET)` returns
\* (TRUE) or throws (FALSE): the signature was made with the webhook secret
ConstructEvent(sigKey) == sigKey = WebhookSecret

\* the Token document of the webhook handler (no category, no packageId)
WebhookToken(payment) ==
    TokenDoc(payment.user, "purchase", payment.tokens, Null,
             payment.stripePaymentIntentId, Null)

\* (`User.findById(payment.user)` finds the owner: users are not deleted here)
handlePaymentSuccess(id) ==
    LET payment == FindPayment(id) IN
    IF payment = None \/ Val(payment).status = "succeeded"
    THEN UNCHANGED <<tokens, ledger, payments>>
    ELSE /\ BagCardinality(ledger) < MaxLedger
         /\ payments' = [payments EXCEPT ![id].status = "succeeded"]
         /\ tokens' = [tokens EXCEPT ![Val(payment).user] = @ + Val(payment).tokens]
         /\ ledger' = Insert(ledger, WebhookToken(Val(payment)))

SetStatus(id, status) ==
    IF FindPayment(id) = None
    THEN UNCHANGED <<tokens, ledger, payments>>
    ELSE /\ payments' = [payments EXCEPT ![id].status = status]
         /\ UNCHANGED <<tokens, ledger>>

\* faulty variant: a failed attempt reopens the payment
handlePaymentFailureReopens(id) == SetStatus(id, "pending")
handlePaymentFailure(id) == SetStatus(id, "failed")

\* faulty variant: a dispute takes the granted tokens back
handleDisputeCreatedReverses(id) ==
    LET payment == FindPayment(id) IN
    IF payment = None
    THEN UNCHANGED <<tokens, ledger, payments>>
    ELSE /\ payments' = [payments EXCEPT ![id].status = "disputed"]
         /\ tokens' = [tokens EXCEPT ![Val(payment).user] = @ - Val(payment).tokens]
         /\ UNCHANGED ledger
handleDisputeCreated(id) == SetStatus(id, "disputed")

\* sigKey: the key the stripe-signature header was computed with;
\* id: event.data.object.id (dispute: .payment_intent)
StripeWebhook(sigKey, type, id) ==
    /\ req' = Request("webhook", Null, id, type)
    /\ UNCHANGED <<packages, stripe, services>>
    /\ stripeCalls' = {}
    /\ IF ~ConstructEvent(sigKey)
       THEN /\ res' = Response(400, "Webhook Error")
            /\ UNCHANGED <<tokens, ledger, payments>>
       ELSE /\ CASE type = "payment_intent.succeeded" -> handlePaymentSuccess(id)
              [] type = "payment_intent.payment_failed" -> handlePaymentFailure(id)
              [] type = "charge.dispute.created" -> handleDisputeCreated(id)
              [] OTHER -> UNCHANGED <<tokens, ledger, payments>>
            /\ res' = Response(200, "received")

\* ------------------------------- admin.js: PUT / DELETE /token-packages/:id
\* a request body: every field absent (None) or present (Some(value))
NoEdit ==
    [tokens |-> None, bonusTokens |-> None, isActive |-> None,
     maxPurchases |-> None, expiresAt |-> None]
\* bodies that reprice the package
PriceEdits ==
    {[NoEdit EXCEPT !.tokens = Some(n)] : n \in 1..2}
    \cup {[NoEdit EXCEPT !.bonusTokens = Some(n)] : n \in 0..1}
\* bodies that change who may buy it, and until when
AvailabilityEdits ==
    {[NoEdit EXCEPT !.isActive = Some(b)] : b \in BOOLEAN}
    \cup {[NoEdit EXCEPT !.maxPurchases = Some(m)] : m \in {None, Some(0), Some(1)}}
    \cup {[NoEdit EXCEPT !.expiresAt = Some(e)] : e \in {None, Some(1)}}

\* the assignments of lines 296-308 that touch the modelled fields
ApplyEdit(package, body) ==
    [tokens |-> IF TruthyNum(body.tokens) THEN Val(body.tokens) ELSE package.tokens,
     bonusTokens |-> IF body.bonusTokens # None THEN Val(body.bonusTokens)
                     ELSE package.bonusTokens,
     isActive |-> IF body.isActive # None THEN Val(body.isActive)
                  ELSE package.isActive,
     maxPurchases |-> IF body.maxPurchases # None THEN Val(body.maxPurchases)
                      ELSE package.maxPurchases,
     expiresAt |-> IF body.expiresAt # None THEN Val(body.expiresAt)
                   ELSE package.expiresAt]

UpdatePackage(id, body) ==
    /\ req' = Request("updatePackage", Null, NoId, id)
    /\ UNCHANGED <<tokens, ledger, payments, stripe, services>>
    /\ stripeCalls' = {}
    /\ IF FindPackage(id) = None
       THEN /\ res' = Response(404, "Package not found")
            /\ UNCHANGED packages
       ELSE /\ packages' = [packages EXCEPT
                  ![id] = Some(ApplyEdit(Val(FindPackage(id)), body))]
            /\ res' = Response(200, "package")

DeletePackage(id) ==
    /\ req' = Request("deletePackage", Null, NoId, id)
    /\ UNCHANGED <<tokens, ledger, payments, stripe, services>>
    /\ stripeCalls' = {}
    /\ IF FindPackage(id) = None
       THEN /\ res' = Response(404, "Package not found")
            /\ UNCHANGED packages
       ELSE /\ packages' = [packages EXCEPT ![id] = None]
            /\ res' = Response(200, "Package deleted successfully")

\* ------------------------------- webhooks.js when a database write is rejected
\* failAt: which of the writes a handler issues is rejected by the database
\* (0: none).  The writes before it are kept, the handler's catch block logs
\* the error and returns, and the route answers as if nothing had happened.
WriteFaults == 0 .. 3

\* payment.save() is write 1, user.save() write 2, tokenTransaction.save() 3
handlePaymentSuccessFailing(id, failAt) ==
    LET payment == FindPayment(id) IN
    IF payment = None \/ Val(payment).status = "succeeded"
    THEN UNCHANGED <<tokens, ledger, payments>>
    ELSE /\ failAt = 0 => BagCardinality(ledger) < MaxLedger
         /\ failAt = 3 => tokens[Val(payment).user] + Val(payment).tokens <= MaxBalance
         /\ payments' = IF failAt = 1 THEN payments
                        ELSE [payments EXCEPT ![id].status = "succeeded"]
         /\ tokens' = IF failAt \in {1, 2} THEN tokens
                      ELSE [tokens EXCEPT
                              ![Val(payment).user] = @ + Val(payment).tokens]
         /\ ledger' = IF failAt \in {1, 2, 3} THEN ledger
                      ELSE Insert(ledger, WebhookToken(Val(payment)))

\* handlePaymentFailure / handleDisputeCreated: payment.save() is write 1
SetStatusFailing(id, status, failAt) ==
    IF failAt = 1 THEN UNCHANGED <<tokens, ledger, payments>>
    ELSE SetStatus(id, status)

\* faulty variant: an event of an unknown kind is taken for a failed payment
HandleEventUnknownAsFailure(type, id, failAt) ==
    CASE type = "payment_intent.succeeded" -> handlePaymentSuccessFailing(id, failAt)
      [] type = "charge.dispute.created" -> SetStatusFailing(id, "disputed", failAt)
      [] OTHER -> SetStatusFailing(id, "failed", failAt)
\* `switch (event.type)`
HandleEvent(type, id, failAt) ==
    CASE type = "payment_intent.succeeded" -> handlePaymentSuccessFailing(id, failAt)
      [] type = "payment_intent.payment_failed" -> SetStatusFailing(id, "failed", failAt)
      [] type = "charge.dispute.created" -> SetStatusFailing(id, "disputed", failAt)
      [] OTHER -> UNCHANGED <<tokens, ledger, payments>>

StripeWebhookFailing(sigKey, type, id, failAt) ==
    /\ req' = Request("webhook", Null, id, type)
    /\ UNCHANGED <<packages, stripe, services>>
    /\ stripeCalls' = {}
    /\ IF ~ConstructEvent(sigKey)
       THEN /\ res' = Response(400, "Webhook Error")
            /\ UNCHANGED <<tokens, ledger, payments>>
       ELSE /\ HandleEvent(type, id, failAt)
            /\ res' = Response(200, "received")

\* ------------------------------- aiProviders/mockProvider.js: the price table
\* `options.size` / `options.style` of a request.  "256x256" and "sketch"
\* are not in the table; "constructor" is not in it either, but it names a
\* member every JS object inherits from Object.prototype.
Sizes == {Null, "512x512", "1024x1024", "256x256", "constructor"}
Styles == {Null, "realistic", "artistic", "cartoon", "anime", "sketch"}
OptionBags == [size : Sizes, style : Styles]
\* the bodies generation requests carry: priced 5, 8, 11 and NaN
RequestBodies ==
    {[size |-> Null, style |-> Null], [size |-> "1024x1024", style |-> Null],
     [size |-> "1024x1024", style |-> "artistic"],
     [size |-> "constructor", style |-> Null]}

NaN == None                       \* the number NaN; any other number n is Some(n)
BaseCost == 5                     \* pricing.baseCost
Tenths == 10                      \* multipliers are held in tenths

\* what `table[key]` evaluates to: a number of the table (in tenths), a
\* function inherited from Object.prototype, or undefined
Entry(kind, tenths) == [kind |-> kind, tenths |-> tenths]
Undefined == Entry("undefined", 0)

\* `pricing.sizeMultipliers[key]`
sizeMultipliers(key) ==
    CASE key = "512x512" -> Entry("number", 10)
      [] key = "1024x1024" -> Entry("number", 16)
      [] key = "constructor" -> Entry("function", 0)
      [] OTHER -> Undefined

\* `pricing.styleMultipliers[key]`
styleMultipliers(key) ==
    CASE key = "realistic" -> Entry("number", 10)
      [] key = "artistic" -> Entry("number", 14)
      [] key = "cartoon" -> Entry("number", 12)
      [] key = "anime" -> Entry("number", 13)
      [] key = "constructor" -> Entry("function", 0)
      [] OTHER -> Undefined

\* `options.key && table[options.key]` is truthy
Applies(key, entry) ==
    /\ Truthy(key)
    /\ \/ entry.kind = "function"
       \/ entry.kind = "number" /\ entry.tenths # 0

\* the factor of `cost *= table[key]`, in tenths: NaN for a function
Factor(key, entry) ==
    IF ~Applies(key, entry) THEN Some(Tenths)
    ELSE IF entry.kind = "function" THEN NaN
    ELSE Some(entry.tenths)

\* Math.round of the non-negative number n / d: halves round up
MathRound(n, d) == (2 * n + d) \div (2 * d)

\* MockAIProvider.calculateTokenCost(options), reached through
\* AIProviderManager.calculateTokenCost
calculateTokenCost(options) ==
    LET size == Factor(options.size, sizeMultipliers(options.size))
        style == Factor(options.style, styleMultipliers(options.style))
    IN  IF size = NaN \/ style = NaN THEN NaN
        ELSE Some(MathRound(BaseCost * Val(size) * Val(style), Tenths * Tenths))

\* one call of the pricing function, recorded with its result
Quote(options) ==
    /\ Len(quotes) < MaxQuotes
    /\ quotes' = Append(quotes,
          [options |-> options, cost |-> calculateTokenCost(options)])
    /\ UNCHANGED <<tokens, ledger, payments, packages, stripe, accounts, req, res,
                   stripeCalls, images, manager, notifications, inflight>>

\* --------------------------------- services/aiProviderManager.js: the manager
\* a provider instance: `new ProviderClass()` numbers them as they are built
Provider(name, instance, initialized) ==
    [name |-> name, instance |-> instance, initialized |-> initialized]
NoProvider == Provider(Null, 0, FALSE)      \* `this.currentProvider = null`

\* the manager after server.js has run initialize({provider: 'mock'})
StartedManager ==
    [currentProvider |-> Provider("mock", 1, TRUE), constructed |-> 1]

\* the classes loadProviders() registers, and the names requests carry
Registered == {"mock", "openai"}
RequestedProviders == Registered \cup {"nosuch"}
\* whether `initialize(providerConfig)` can resolve (TRUE) or reject (FALSE):
\* the mock always resolves, OpenAI rejects without an API key or its module
InitOutcomes(name) == IF name = "mock" THEN {TRUE} ELSE BOOLEAN

\* setProvider(name) throws: unknown name, or initialize() rejected
SetProviderThrows(name, initOk) == name \notin Registered \/ ~initOk

\* the manager after setProvider(name): the new instance is assigned to
\* currentProvider before its initialize() is awaited
AfterSetProvider(m, name, initOk) ==
    IF name \notin Registered THEN m
    ELSE [currentProvider |-> Provider(name, m.constructed + 1, initOk),
          constructed |-> m.constructed + 1]

\* the manager as its constructor leaves it
ConstructedManager == [currentProvider |-> NoProvider, constructed |-> 0]

\* server.js initializeAIProvider with AI_PROVIDER = name:
\* `await aiProviderManager.initialize(aiConfig)` in a try block whose catch
\* block logs the error; the routes are mounted when it has resolved
InitializeAIProvider(name, initOk) ==
    /\ req = NoReq
    /\ manager' = AfterSetProvider(manager, name, initOk)
    /\ req' = Request("initializeAIProvider", Null, NoId, name)
    /\ res' = NoRes
    /\ UNCHANGED <<tokens, ledger, payments, packages, stripe, accounts,
                   stripeCalls, images, notifications, inflight, quotes>>

\* POST /providers/switch -> switchProvider(name) -> setProvider(name)
SwitchProvider(name, initOk) ==
    /\ name \in Registered => manager.constructed < MaxInstances
    /\ manager' = AfterSetProvider(manager, name, initOk)
    /\ req' = Request("switchProvider", Null, NoId, name)
    /\ res' = IF SetProviderThrows(name, initOk)
              THEN Response(500, "Failed to switch provider")
              ELSE Response(200, "Switched")
    /\ UNCHANGED <<tokens, ledger, payments, packages, stripe, accounts, stripeCalls,
                   images, notifications, inflight, quotes>>

\* POST /providers/test -> testProvider(name); getStatus() of the mock and
\* of the OpenAI provider does not throw
TestProvider(name, initOk) ==
    LET originalProvider == manager.currentProvider
        set == AfterSetProvider(manager, name, initOk)
    IN
    /\ name \in Registered => manager.constructed < MaxInstances
    /\ req' = Request("testProvider", Null, NoId, name)
    /\ IF SetProviderThrows(name, initOk)
       THEN \* the catch block returns the failure; nothing is restored
            /\ manager' = set
            /\ res' = Response(200, "success: false")
       ELSE /\ manager' = IF originalProvider # NoProvider
                          THEN [set EXCEPT !.currentProvider = originalProvider]
                          ELSE set
            /\ res' = Response(200, "success: true")
    /\ UNCHANGED <<tokens, ledger, payments, packages, stripe, accounts, stripeCalls,
                   images, notifications, inflight, quotes>>

\* --------------------------------------- upload.js: POST /images/generate
\* `new Image({user, status: 'generating', tokensUsed, ...})`
NewImage(u, tokensRequired) ==
    [user |-> u, status |-> "generating", tokensUsed |-> tokensRequired]

\* faulty variant: the debit is recorded without its sign
GenerateTokenUnsigned(u, tokensRequired) ==
    TokenDoc(u, "spend", tokensRequired, Null, NoId, Null)
\* `new Token({user, type: 'spend', amount: -tokensRequired, ...})`
GenerateToken(u, tokensRequired) ==
    TokenDoc(u, "spend", -tokensRequired, Null, NoId, Null)

\* `const { style = 'realistic', size = '512x512' } = req.body`
WithDefaults(body) ==
    [size |-> IF body.size = Null THEN "512x512" ELSE body.size,
     style |-> IF body.style = Null THEN "realistic" ELSE body.style]

\* faulty variant: `<=` for `<` in the balance check
GenerateCheckOffByOne(balance, tokensRequired) == balance <= tokensRequired
\* `user.tokens < tokensRequired`
GenerateInsufficient(balance, tokensRequired) == balance < tokensRequired

\* promptValid: what validatePrompt(prompt).valid is; body: size and style
\* of the request body.  The current provider is the mock provider.
Generate(u, promptValid, body) ==
    LET options == WithDefaults(body)
        tokensRequired == calculateTokenCost(options)
        reject(status, message) ==
            /\ res' = Response(status, message)
            /\ UNCHANGED <<tokens, ledger, images>>
    IN
    /\ req' = Request("generate", u, NoId, Null)
    /\ UNCHANGED <<payments, packages, stripe, accounts, manager, notifications,
                   inflight, quotes>>
    /\ stripeCalls' = {}
    /\ IF manager.currentProvider = NoProvider
       THEN reject(500, "Failed to start image generation")
       ELSE IF ~promptValid
       THEN reject(400, "Invalid prompt")
       ELSE IF tokensRequired = NaN
       THEN \* every comparison with NaN is false; image.save() then rejects
            \* tokensUsed: NaN and the catch block answers
            reject(500, "Failed to start image generation")
       ELSE IF GenerateInsufficient(tokens[u], Val(tokensRequired))
       THEN reject(400, "Insufficient tokens")
       ELSE /\ BagCardinality(ledger) < MaxLedger
            /\ images' = Append(images, NewImage(u, Val(tokensRequired)))
            /\ tokens' = [tokens EXCEPT ![u] = @ - Val(tokensRequired)]
            /\ ledger' = Insert(ledger, GenerateToken(u, Val(tokensRequired)))
            /\ res' = Response(200, "Image generation started")

\* how generateAIImage(...) settles: result.status, or a rejection
GenerationOutcomes == {"completed", "failed"}

\* faulty variant: a failed generation gives the tokens back
GenerationSettledRefunds(i, outcome) ==
    /\ i \in 1 .. Len(images)
    /\ images[i].status = "generating"
    /\ images' = [images EXCEPT ![i].status = outcome]
    /\ tokens' = IF outcome = "failed"
                 THEN [tokens EXCEPT ![images[i].user] = @ + images[i].tokensUsed]
                 ELSE tokens
    /\ req' = Request("generationSettled", images[i].user, i, outcome)
    /\ UNCHANGED <<ledger, payments, packages, stripe, accounts, res, stripeCalls,
                   manager, notifications, inflight, quotes>>
\* faulty variant: the callbacks write whatever the stored status is (as
\* if they could run again)
GenerationSettledAgain(i, outcome) ==
    /\ i \in 1 .. Len(images)
    /\ images' = [images EXCEPT ![i].status = outcome]
    /\ req' = Request("generationSettled", images[i].user, i, outcome)
    /\ UNCHANGED <<tokens, ledger, payments, packages, stripe, accounts, res,
                   stripeCalls, manager, notifications, inflight, quotes>>
\* the .then / .catch callbacks of the detached generateAIImage promise of
\* image i: each runs once, after the response was sent
GenerationSettled(i, outcome) ==
    /\ i \in 1 .. Len(images)
    /\ images[i].status = "generating"
    /\ images' = [images EXCEPT ![i].status = outcome]
    /\ req' = Request("generationSettled", images[i].user, i, outcome)
    /\ UNCHANGED <<tokens, ledger, payments, packages, stripe, accounts, res, stripeCalls,
                   manager, notifications, inflight, quotes>>

\* ------------------------------- admin.js: POST /admin/users/:userId/tokens
UserIds == Users \cup {"u0"}             \* "u0": no such user
GrantAmounts == {None, Some(0), Some(-5), Some(5), Some(11)}

\* faulty variant: the adjustment is recorded as an absolute value
AdminTokenAbsolute(userId, amount) ==
    TokenDoc(userId, "admin_adjustment", IF amount < 0 THEN -amount ELSE amount,
             "admin_bonus", NoId, Null)
\* `new Token({user: req.params.userId, type, amount, category, ...})`
AdminToken(userId, amount) ==
    TokenDoc(userId, "admin_adjustment", amount, "admin_bonus", NoId, Null)

AdminAddTokens(userId, amount, description) ==
    /\ req' = Request("adminTokens", userId, NoId, Null)
    /\ UNCHANGED <<payments, packages, stripe, services>>
    /\ stripeCalls' = {}
    /\ IF ~TruthyNum(amount) \/ ~Truthy(description)
       THEN /\ res' = Response(400, "Amount and description are required")
            /\ UNCHANGED <<tokens, ledger>>
       ELSE IF userId \notin Users
       THEN /\ res' = Response(404, "User not found")
            /\ UNCHANGED <<tokens, ledger>>
       ELSE /\ BagCardinality(ledger) < MaxLedger
            /\ ledger' = Insert(ledger, AdminToken(userId, Val(amount)))
            /\ tokens' = [tokens EXCEPT ![userId] = @ + Val(amount)]
            /\ res' = Response(200, "Tokens added successfully")

\* --------------- services/notificationService.js, models/Notification.js
RetryCeiling == 3       \* `this.deliveryAttempts >= 3`
Schedules == {None} \cup {Some(t) : t \in Times}     \* options.scheduledFor

\* `new Notification({..., scheduledFor})` with the schema defaults
NewNotification(scheduledFor) ==
    [status |-> "pending", deliveryAttempts |-> 0, scheduledFor |-> scheduledFor]

\* notificationSchema.methods.incrementAttempts
incrementAttempts(n) ==
    LET attempts == n.deliveryAttempts + 1 IN
    [n EXCEPT !.deliveryAttempts = attempts,
              !.status = IF attempts >= RetryCeiling THEN "failed" ELSE @]

\* deliverNotification(notification, options) for a user that exists;
\* promises: the channel sends it starts (email, push), fulfilled: how many
\* of them resolve.  `results.some(r => r.status === 'fulfilled')`
deliverNotification(n, promises, fulfilled) ==
    IF promises > 0 /\ fulfilled > 0
    THEN [n EXCEPT !.status = "sent"]
    ELSE incrementAttempts([n EXCEPT !.status = "failed"])

\* sendNotification(options) at time now
SendNotification(scheduledFor, now, promises, fulfilled) ==
    LET notification == NewNotification(scheduledFor) IN
    /\ Len(notifications) < MaxNotifications
    /\ notifications' = Append(notifications,
          IF scheduledFor = None \/ Val(scheduledFor) <= now
          THEN deliverNotification(notification, promises, fulfilled)
          ELSE notification)
    /\ UNCHANGED <<tokens, ledger, payments, packages, stripe, accounts, req, res,
                   stripeCalls, images, manager, inflight, quotes>>

\* `Notification.find({status: 'pending', scheduledFor: {$lte: new Date()}})`
DueNotifications(now) ==
    {i \in 1 .. Len(notifications) :
        /\ notifications[i].status = "pending"
        /\ notifications[i].scheduledFor # None
        /\ Val(notifications[i].scheduledFor) <= now}

\* processScheduledNotifications() at time now; both channels are tried for
\* every due notification, delivered: those with a channel that resolves
ProcessScheduledNotifications(now, delivered) ==
    /\ DueNotifications(now) # {}
    /\ notifications' =
          [i \in 1 .. Len(notifications) |->
              IF i \in DueNotifications(now)
              THEN deliverNotification(notifications[i], 2,
                                       IF i \in delivered THEN 1 ELSE 0)
              ELSE notifications[i]]
    /\ UNCHANGED <<tokens, ledger, payments, packages, stripe, accounts, req, res,
                   stripeCalls, images, manager, inflight, quotes>>

\* ------------------------------------------- handlers that overlap in time
\* Node runs a handler up to its next `await`; between two awaits of one
\* handler any other handler may run.  A handler in flight is its position
\* (pc: the await it has passed) and the documents it holds in memory:
\* seen: payment.status as read, balance: user.tokens as read.
Handler(op, pc, user, id, seen, balance, amount) ==
    [op |-> op, pc |-> pc, user |-> user, id |-> id, seen |-> seen,
     balance |-> balance, amount |-> amount]

\* handler h moves on as h2 / returns
Advance(h, h2) == inflight' = (inflight (-) SetToBag({h})) (+) SetToBag({h2})
Return(h) == inflight' = inflight (-) SetToBag({h})

\* payments.js 125-128 (op "confirm", the processor having reported
\* succeeded) / webhooks.js 94-96 (op "webhook", the signature verified):
\* `await Payment.findOne(...)` of a Payment that exists
FindPaymentToSettle(op, u, id) ==
    LET payment == IF op = "confirm" THEN FindOwnPayment(id, u) ELSE FindPayment(id)
    IN
    /\ stripe
    /\ payment # None
    /\ BagCardinality(inflight) < MaxHandlers
    /\ inflight' = inflight (+) SetToBag({
          Handler(op, "found", Val(payment).user, id, Val(payment).status, 0,
                  Val(payment).tokens)})
    /\ UNCHANGED <<tokens, ledger, payments, packages, stripe, accounts, req, res,
                   stripeCalls, images, manager, notifications, quotes>>

\* faulty variant: the guard is tested against the stored status as well
\* (as a conditional update would)
GuardPassesAtomic(seen, stored) == seen # "succeeded" /\ stored # "succeeded"
\* `payment.status === 'succeeded'` is false: the test is on the document
\* as it was read, whatever has been stored since
GuardPasses(seen, stored) == seen # "succeeded"

\* payments.js 134-140 / webhooks.js 103-110: the guard, then
\* `payment.status = 'succeeded'; await payment.save()`
SavePaymentSucceeded(h) ==
    /\ h.op \in {"confirm", "webhook"} /\ h.pc = "found"
    /\ IF GuardPasses(h.seen, payments[h.id].status)
       THEN /\ payments' = [payments EXCEPT ![h.id].status = "succeeded"]
            /\ Advance(h, [h EXCEPT !.pc = "marked"])
       ELSE /\ Return(h)
            /\ UNCHANGED payments
    /\ UNCHANGED <<tokens, ledger, packages, stripe, accounts, req, res, stripeCalls,
                   images, manager, notifications, quotes>>

\* payments.js 143 / webhooks.js 113: `await User.findById(...)`
LoadUser(h) ==
    /\ h.op \in {"confirm", "webhook"} /\ h.pc = "marked"
    /\ Advance(h, [h EXCEPT !.pc = "loaded", !.balance = tokens[h.user]])
    /\ UNCHANGED <<tokens, ledger, payments, packages, stripe, accounts, req, res,
                   stripeCalls, images, manager, notifications, quotes>>

\* payments.js 144-145 / webhooks.js 115-116:
\* `user.tokens += payment.tokens; await user.save()`
SaveUserCredited(h) ==
    /\ h.op \in {"confirm", "webhook"} /\ h.pc = "loaded"
    /\ tokens' = [tokens EXCEPT ![h.user] = h.balance + h.amount]
    /\ Advance(h, [h EXCEPT !.pc = "credited"])
    /\ UNCHANGED <<ledger, payments, packages, stripe, accounts, req, res, stripeCalls,
                   images, manager, notifications, quotes>>

\* payments.js 148-165 / webhooks.js 119-132: `await tokenTransaction.save()`
SavePurchaseToken(h) ==
    /\ h.op \in {"confirm", "webhook"} /\ h.pc = "credited"
    /\ BagCardinality(ledger) < MaxLedger
    /\ ledger' = Insert(ledger,
          IF h.op = "confirm" THEN ConfirmToken(h.user, payments[h.id])
          ELSE WebhookToken(payments[h.id]))
    /\ Return(h)
    /\ UNCHANGED <<tokens, payments, packages, stripe, accounts, req, res, stripeCalls,
                   images, manager, notifications, quotes>>

\* tokens.js 161-169: a spend request with a valid amount and description
\* reaches `await User.findById(req.user._id)`
FindUserToSpend(u, amount) ==
    /\ ~InvalidAmount(Some(amount))
    /\ BagCardinality(inflight) < MaxHandlers
    /\ inflight' = inflight (+) SetToBag({
          Handler("spend", "loaded", u, NoId, Null, tokens[u], amount)})
    /\ UNCHANGED <<tokens, ledger, payments, packages, stripe, accounts, req, res,
                   stripeCalls, images, manager, notifications, quotes>>

\* faulty variant: the check sees the balance as stored when the debit is
\* written (as a conditional update would)
BalanceCheckedFresh(read, stored) == stored
\* the `user.tokens` of line 171: the document as it was read
BalanceChecked(read, stored) == read

\* faulty variant: the debit is applied to the stored balance (as an
\* `$inc` update would)
DebitedInPlace(read, stored, amount) == stored - amount
\* `user.tokens -= amount; user.save()`: the document as it was read, less
\* the amount, is what save() stores
Debited(read, stored, amount) == read - amount

\* tokens.js 171-196: the balance check, then `user.tokens -= amount` and
\* `await Promise.all([tokenTransaction.save(), user.save()])` (the two
\* writes are taken together: no handler reads the ledger)
SaveSpend(h) ==
    /\ h.op = "spend" /\ h.pc = "loaded"
    /\ Return(h)
    /\ IF InsufficientTokens(BalanceChecked(h.balance, tokens[h.user]), h.amount)
       THEN UNCHANGED <<tokens, ledger>>
       ELSE /\ BagCardinality(ledger) < MaxLedger
            /\ ledger' = Insert(ledger, SpendToken(h.user, h.amount))
            /\ tokens' = [tokens EXCEPT ![h.user] =
                              Debited(h.balance, tokens[h.user], h.amount)]
    /\ UNCHANGED <<payments, packages, stripe, accounts, req, res, stripeCalls,
                   images, manager, notifications, quotes>>

\* tokens.js 220-228: an add request with a valid amount and description
\* reaches `await User.findById(req.user._id)`
FindUserToAdd(u, amount) ==
    /\ ~InvalidAmount(Some(amount))
    /\ BagCardinality(inflight) < MaxHandlers
    /\ inflight' = inflight (+) SetToBag({
          Handler("add", "loaded", u, NoId, Null, tokens[u], amount)})
    /\ UNCHANGED <<tokens, ledger, payments, packages, stripe, accounts, req, res,
                   stripeCalls, images, manager, notifications, quotes>>

\* tokens.js 231-247: `user.tokens += amount` and
\* `await Promise.all([tokenTransaction.save(), user.save()])`
SaveAdd(h) ==
    /\ h.op = "add" /\ h.pc = "loaded"
    /\ Return(h)
    /\ BagCardinality(ledger) < MaxLedger
    /\ ledger' = Insert(ledger, AddToken(h.user, h.amount))
    /\ tokens' = [tokens EXCEPT ![h.user] = h.balance + h.amount]
    /\ UNCHANGED <<payments, packages, stripe, accounts, req, res, stripeCalls,
                   images, manager, notifications, quotes>>

\* upload.js 290-303: a generate request with a valid prompt, priced by
\* the current provider (the mock provider, whose price table
\* calculateTokenCost is), reaches `await User.findById(req.user._id)`.
\* The handler holds the price and, as `seen`, the name of the provider
\* that set it.  (A request priced NaN stops at image.save(), before any
\* write.)
FindUserToGenerate(u, body) ==
    LET tokensRequired == calculateTokenCost(WithDefaults(body)) IN
    /\ manager.currentProvider.name = "mock"
    /\ tokensRequired # NaN
    /\ BagCardinality(inflight) < MaxHandlers
    /\ inflight' = inflight (+) SetToBag({
          Handler("generate", "loaded", u, NoId, manager.currentProvider.name,
                  tokens[u], Val(tokensRequired))})
    /\ UNCHANGED <<tokens, ledger, payments, packages, stripe, accounts, req, res,
                   stripeCalls, images, manager, notifications, quotes>>

\* upload.js 304-349: the balance check, `await image.save()`,
\* `user.tokens -= tokensRequired; await user.save()` and
\* `await tokenTransaction.save()` (taken together: of the three writes
\* only user.save() stores something another handler reads); when the last
\* write has returned, generateAIImage(...) is called and
\* aiProviderManager.generateImage takes the provider current by then
SaveGenerate(h) ==
    /\ h.op = "generate" /\ h.pc = "loaded"
    /\ Return(h)
    /\ IF GenerateInsufficient(h.balance, h.amount)
       THEN UNCHANGED <<tokens, ledger, images>>
       ELSE /\ BagCardinality(ledger) < MaxLedger
            /\ images' = Append(images, NewImage(h.user, h.amount))
            /\ ledger' = Insert(ledger, GenerateToken(h.user, h.amount))
            /\ tokens' = [tokens EXCEPT ![h.user] =
                              Debited(h.balance, tokens[h.user], h.amount)]
    /\ UNCHANGED <<payments, packages, stripe, accounts, req, res, stripeCalls,
                   manager, notifications, quotes>>

\* ------------------------------------- manager calls that overlap in time
\* Of the awaits in setProvider and testProvider only two wait for I/O, so
\* that other requests run meanwhile: OpenAIProvider.initialize at
\* `await import('openai')` (reached when an API key is configured) and
\* OpenAIProvider.getStatus at `await this.openai.models.list()`.  A
\* testProvider('openai') call in flight is its position, the instance it
\* built and the provider it found current.
TestCall(pc, instance, originalProvider) ==
    [op |-> "test", pc |-> pc, instance |-> instance,
     originalProvider |-> originalProvider]

\* `this.initialized = true` on instance k, seen through every reference
Initialised(provider, k) ==
    IF provider.instance = k THEN [provider EXCEPT !.initialized = TRUE]
    ELSE provider

\* aiProviderManager.js 243-246 and 80-91: testProvider('openai') up to the
\* import: the new instance is current, not yet initialized
BeginTestProvider ==
    /\ manager.constructed < MaxInstances
    /\ BagCardinality(inflight) < MaxHandlers
    /\ manager' = AfterSetProvider(manager, "openai", FALSE)
    /\ inflight' = inflight (+) SetToBag({
          TestCall("importing", manager.constructed + 1, manager.currentProvider)})
    /\ req' = Request("testProvider", Null, NoId, "openai")
    /\ res' = NoRes
    /\ UNCHANGED <<tokens, ledger, payments, packages, stripe, accounts,
                   stripeCalls, images, notifications, quotes>>

\* `if (originalProvider) this.currentProvider = originalProvider` (250-252)
Restored(m, originalProvider) ==
    IF originalProvider # NoProvider
    THEN [m EXCEPT !.currentProvider = originalProvider] ELSE m

\* the import settles.  imported = FALSE: initialize rejects and the catch
\* block of testProvider answers.  imported = TRUE: the instance is
\* initialized, setProvider returns and getProviderStatus() asks the
\* provider that is current by now: an initialized OpenAI provider awaits
\* models.list(), any other answers at once and testProvider restores.
TestImported(h, imported) ==
    LET m == [manager EXCEPT !.currentProvider = Initialised(@, h.instance)]
        others == BagOfAll(
            LAMBDA c : [c EXCEPT !.originalProvider = Initialised(@, h.instance)],
            inflight (-) SetToBag({h}))
        lists == m.currentProvider.name = "openai" /\ m.currentProvider.initialized
    IN
    /\ h.op = "test" /\ h.pc = "importing"
    /\ UNCHANGED <<tokens, ledger, payments, packages, stripe, accounts,
                   stripeCalls, images, notifications, quotes>>
    /\ IF ~imported
       THEN /\ UNCHANGED manager   \* the catch block (261-266) assigns nothing
            /\ Return(h)
            /\ req' = Request("testProvider", Null, NoId, "openai")
            /\ res' = Response(200, "success: false")
       ELSE IF lists
       THEN /\ manager' = m
            /\ inflight' = others (+) SetToBag({[h EXCEPT !.pc = "listing"]})
            /\ UNCHANGED <<req, res>>
       ELSE /\ manager' = Restored(m, h.originalProvider)
            /\ inflight' = others
            /\ req' = Request("testProvider", Null, NoId, "openai")
            /\ res' = Response(200, "success: true")

\* models.list() settles (getStatus catches its errors): testProvider
\* restores and answers
TestListed(h) ==
    /\ h.op = "test" /\ h.pc = "listing"
    /\ manager' = Restored(manager, h.originalProvider)
    /\ Return(h)
    /\ req' = Request("testProvider", Null, NoId, "openai")
    /\ res' = Response(200, "success: true")
    /\ UNCHANGED <<tokens, ledger, payments, packages, stripe, accounts,
                   stripeCalls, images, notifications, quotes>>

\* ------------------------------------------ admin.js: user administration
\* the User documents admins manage (they own no images, payments, ledger
\* entries or files); "a0" is never a document
AccountIds == {"a1", "a2", "a3"}
Roles == {"user", "admin", "super_admin"}
RequestedRoles == Roles \cup {"root"}
Account(role, isActive) == Some([role |-> role, isActive |-> isActive])
StartedAccounts ==
    [a \in AccountIds |->
        Account(CASE a = "a1" -> "admin" [] a = "a2" -> "super_admin"
                  [] OTHER -> "user", TRUE)]

\* an ObjectId is 12 bytes; a route parameter is a string.  A 24-digit
\* hexadecimal string is written here as the id it spells and the case of
\* its letters.
HexString(id, case) == <<id, case>>
UserIdParams == {HexString(id, c) : id \in AccountIds \cup {"a0"}, c \in {"lower", "upper"}}
\* `req.user._id.toString()`: the lower-case hexadecimal spelling
IdToString(id) == HexString(id, "lower")
\* the cast Mongoose applies to the id of findById / findByIdAndUpdate /
\* findByIdAndDelete: hexadecimal digits of either case spell the same id
CastObjectId(param) == param[1]
\* `User.findById(id)`
FindAccount(id) == IF id \in AccountIds THEN accounts[id] ELSE None

\* faulty variant: the guard is skipped
OwnAccountNever(param, requester) == FALSE
\* `req.params.userId === req.user._id.toString()`
OwnAccount(param, requester) == param = IdToString(requester)

\* middleware adminAuth / superAdminAuth: the status they answer with, or
\* 0 when they call next()
RoleAuth(requester, role) ==
    IF FindAccount(requester) = None THEN 401
    ELSE IF Val(FindAccount(requester)).role # role THEN 403
    ELSE 0

AdminRequest(op, requester, status, message) ==
    /\ req' = Request(op, requester, NoId, Null)
    /\ res' = Response(status, message)
    /\ stripeCalls' = {}
    /\ UNCHANGED <<packages, stripe, images, manager, notifications,
                   inflight, quotes>>

\* PATCH /admin/users/:userId/role
UpdateUserRole(requester, param, role) ==
    LET denied == RoleAuth(requester, "admin")
        id == CastObjectId(param)
        answer(status, message) == AdminRequest("role", requester, status, message)
    IN
    /\ UNCHANGED <<tokens, ledger, payments>>
    /\ IF denied # 0
       THEN answer(denied, "Admin access required") /\ UNCHANGED accounts
       ELSE IF role \notin Roles
       THEN answer(400, "Invalid role") /\ UNCHANGED accounts
       ELSE IF OwnAccount(param, requester)
       THEN answer(400, "Cannot change your own role") /\ UNCHANGED accounts
       ELSE IF FindAccount(id) = None
       THEN answer(404, "User not found") /\ UNCHANGED accounts
       ELSE /\ accounts' = [accounts EXCEPT ![id] =
                  Account(role, Val(accounts[id]).isActive)]
            /\ answer(200, "User role updated successfully")

\* PATCH /admin/users/:userId/status
ToggleUserStatus(requester, param) ==
    LET denied == RoleAuth(requester, "admin")
        id == CastObjectId(param)
        answer(status, message) == AdminRequest("status", requester, status, message)
    IN
    /\ UNCHANGED <<tokens, ledger, payments>>
    /\ IF denied # 0
       THEN answer(denied, "Admin access required") /\ UNCHANGED accounts
       ELSE IF FindAccount(id) = None
       THEN answer(404, "User not found") /\ UNCHANGED accounts
       ELSE IF OwnAccount(param, requester)
       THEN answer(400, "Cannot deactivate your own account") /\ UNCHANGED accounts
       ELSE /\ accounts' = [accounts EXCEPT ![id] =
                  Account(Val(accounts[id]).role, ~Val(accounts[id]).isActive)]
            /\ answer(200, "User status updated successfully")

\* DELETE /admin/users/:userId
DeleteUser(requester, param) ==
    LET denied == RoleAuth(requester, "super_admin")
        id == CastObjectId(param)
        answer(status, message) == AdminRequest("delete", requester, status, message)
        kept == {d \in DOMAIN ledger : d.user # id}
    IN
    IF denied # 0
    THEN /\ answer(denied, "Super admin access required")
         /\ UNCHANGED <<tokens, ledger, payments, accounts>>
    ELSE IF FindAccount(id) = None
    THEN /\ answer(404, "User not found")
         /\ UNCHANGED <<tokens, ledger, payments, accounts>>
    ELSE IF OwnAccount(param, requester)
    THEN /\ answer(400, "Cannot delete your own account")
         /\ UNCHANGED <<tokens, ledger, payments, accounts>>
    ELSE \* the cascade: Image, Payment, Token and File documents of the user
         /\ req' = Request("delete", requester, NoId, Null)
         /\ res' = Response(200, "User and all associated data deleted successfully")
         /\ stripeCalls' = {}
         /\ images' = SelectSeq(images, LAMBDA i : i.user # id)
         /\ payments' = SelectSeq(payments, LAMBDA pm : pm.user # id)
         /\ ledger' = [d \in kept |-> ledger[d]]
         /\ accounts' = [accounts EXCEPT ![id] = None]
         /\ UNCHANGED <<tokens, packages, stripe, manager, notifications,
                        inflight, quotes>>

\* ---------------------------------------------------------- services state
InitServices ==
    /\ images = <<>>
    /\ manager = StartedManager
    /\ notifications = <<>>
    /\ inflight = EmptyBag
    /\ quotes = <<>>
    /\ accounts = StartedAccounts

\* ------------------------------------------------------------ ledger spec
InitLedger ==
    /\ tokens = [u \in Users |-> 0]
    /\ ledger = EmptyBag
    /\ payments = <<>>
    /\ packages = [p \in PackageIds |-> None]
    /\ stripe = TRUE
    /\ req = NoReq
    /\ res = NoRes
    /\ stripeCalls = {}
    /\ InitServices

SpendStep == \E u \in Users, a \in Amounts, d \in Descriptions : Spend(u, a, d)
AddStep == \E u \in Users, a \in Amounts, d \in Descriptions : Add(u, a, d)

NextLedger == SpendStep \/ AddStep

SpecLedger == InitLedger /\ [][NextLedger]_vars

C6_RejectedSpendNoMutation ==
    [][\A u \in Users, a \in Amounts, d \in Descriptions :
          Spend(u, a, d) =>
            /\ (a # None /\ Val(a) > tokens[u]) =>
                 /\ res'.status = 400
                 /\ Truthy(d) => res'.message = "Insufficient tokens"
                 /\ tokens' = tokens /\ ledger' = ledger
            /\ (a = None \/ Val(a) <= 0 \/ d = Null) =>
                 /\ res'.status = 400
                 /\ tokens' = tokens /\ ledger' = ledger]_vars

\* an overdrawing spend by a user who holds tokens was just rejected
C6_Witness ==
    /\ req.op = "spend"
    /\ tokens[req.user] > 0
    /\ res = Response(400, "Insufficient tokens")

\* ----------------------------------------------------------- payment specs
\* a catalogue entry as POST /admin/token-packages stores it
StarterPackage == Package(2, 1, TRUE, None, None)

InitPay ==
    /\ tokens = [u \in Users |-> 0]
    /\ ledger = EmptyBag
    /\ payments = <<>>
    /\ packages = [p \in PackageIds |-> Some(StarterPackage)]
    /\ stripe \in BOOLEAN
    /\ req = NoReq
    /\ res = NoRes
    /\ stripeCalls = {}
    /\ InitServices

CreateStep ==
    \E u \in Users, pk \in RequestedPackageIds, now \in Times, up \in BOOLEAN :
        CreatePaymentIntent(u, pk, now, up)
ConfirmStep ==
    \E u \in Users, id \in IntentIds, st \in ProcessorStatuses : Confirm(u, id, st)
WebhookStep ==
    \E k \in SigningKeys, t \in EventTypes, id \in IntentIds : StripeWebhook(k, t, id)
UpdatePriceStep ==
    \E pk \in RequestedPackageIds, body \in PriceEdits : UpdatePackage(pk, body)
UpdateAvailabilityStep ==
    \E pk \in RequestedPackageIds, body \in AvailabilityEdits : UpdatePackage(pk, body)
DeletePackageStep ==
    \E pk \in RequestedPackageIds : DeletePackage(pk)

\* the processor configured; a purchase the processor accepts
InitReconcile == InitPay /\ stripe
BuyStep == \E u \in Users : CreatePaymentIntent(u, "pk1", 1, TRUE)

\* purchases reconciled by confirm calls and webhook events
NextPay == CreateStep \/ ConfirmStep \/ WebhookStep
SpecPay == InitPay /\ [][NextPay]_vars

\* purchases from a catalogue whose availability the admin edits
NextCatalog ==
    CreateStep \/ ConfirmStep \/ UpdateAvailabilityStep \/ DeletePackageStep
SpecCatalog == InitPay /\ [][NextCatalog]_vars

\* purchases from a catalogue the admin reprices
NextPricing == CreateStep \/ ConfirmStep \/ UpdatePriceStep
SpecPricing == InitPay /\ [][NextPricing]_vars

\* ------------------------------------------------------- claim vocabulary
\* purchase ledger entries that reference payment id
PurchaseEntries(l, id) ==
    CountWhere(l, LAMBDA d : d.type = "purchase" /\ d.paymentId = id)

\* l2 is l1 plus exactly one purchase entry of `amount` for user u, payment id
OnePurchaseAdded(l1, l2, u, id, amount) ==
    \E d \in DOMAIN l2 :
        /\ d.user = u /\ d.type = "purchase"
        /\ d.amount = amount /\ d.paymentId = id
        /\ l2 = Insert(l1, d)

HasPayment(id) == id \in 1..Len(payments)
OwnedBy(id, u) == HasPayment(id) /\ payments[id].user = u

\* ------------------------------------------------------------------- C2
\* C2: with the processor reporting succeeded, a confirm call on the
\* requester's pending payment sets it succeeded, raises the owner's balance
\* by payment.tokens and adds one purchase ledger entry; a confirm call on
\* the payment it has just set succeeded (i.e. the second of two calls) is
\* answered 400 'Payment already processed' and leaves balance, ledger and
\* payment unchanged.
C2_ConfirmTwiceCreditsOnce ==
    [][(req'.op = "confirm" /\ stripe /\ OwnedBy(req'.id, req'.user)
        /\ Confirm(req'.user, req'.id, "succeeded")) =>
          LET u == req'.user
              id == req'.id
          IN  /\ payments[id].status = "pending" =>
                   /\ res'.status = 200
                   /\ payments' = [payments EXCEPT ![id].status = "succeeded"]
                   /\ tokens' = [tokens EXCEPT ![u] = @ + payments[id].tokens]
                   /\ OnePurchaseAdded(ledger, ledger', u, id, payments[id].tokens)
              /\ payments[id].status = "succeeded" =>
                   /\ res' = Response(400, "Payment already processed")
                   /\ UNCHANGED <<tokens, ledger, payments>>]_vars

\* the second confirm was just refused and the payment is credited once
C2_Witness ==
    /\ req.op = "confirm"
    /\ res = Response(400, "Payment already processed")
    /\ OwnedBy(req.id, req.user)
    /\ PurchaseEntries(ledger, req.id) = 1
    /\ tokens[req.user] = payments[req.id].tokens

\* ------------------------------------------------------------------- C3
\* C3: over any sequence of confirm calls and signature-valid webhook events
\* handled one at a time, every payment is credited at most once: at most
\* one purchase ledger entry references it, and its owner's balance never
\* exceeds what the owner's payments are worth.
C3_CreditedAtMostOnce ==
    \A id \in 1..Len(payments) :
        /\ PurchaseEntries(ledger, id) <= 1
        /\ LET u == payments[id].user
               owned == {i \in 1..Len(payments) : payments[i].user = u}
           IN  Cardinality(owned) = 1 => tokens[u] <= payments[id].tokens

\* ------------------------------------------------------------------- C4
\* C4 as claimed: once a Payment's status has left pending, no later confirm
\* call or webhook event changes it again.
C4_StatusChangesOnce ==
    [][\A id \in 1..Len(payments) :
          payments[id].status # "pending" =>
              payments'[id].status = payments[id].status]_vars

\* C4 as amended: every Payment is created with status pending, and once its
\* status has left pending it never returns to pending: later confirm calls
\* and webhook events move it only among succeeded, failed and disputed.
C4_NeverBackToPending ==
    [][/\ \A id \in 1..Len(payments) :
            payments[id].status # "pending" =>
                payments'[id].status \in {"succeeded", "failed", "disputed"}
       /\ \A id \in 1..Len(payments') :
            ~HasPayment(id) => payments'[id].status = "pending"]_vars

\* a payment that was credited (so it had been succeeded) is now disputed:
\* its status has changed twice
C4_Witness ==
    \E id \in 1..Len(payments) :
        /\ payments[id].status = "disputed"
        /\ PurchaseEntries(ledger, id) >= 1

\* ------------------------------------------------------------------- C5
\* C5: a webhook request whose signature was not made with the webhook
\* secret is answered 400 and changes no Payment, balance, ledger entry or
\* package, whatever event type and payment-intent id it carries.
C5_BadSignatureNoChange ==
    [][(req'.op = "webhook") =>
          \A k \in SigningKeys :
              (k # WebhookSecret /\ StripeWebhook(k, req'.kind, req'.id)) =>
                  /\ res'.status = 400
                  /\ UNCHANGED <<tokens, ledger, payments, packages>>]_vars

\* a forged payment-succeeded event for an uncredited payment was refused
C5_Witness ==
    /\ req.op = "webhook"
    /\ req.kind = "payment_intent.succeeded"
    /\ res = Response(400, "Webhook Error")
    /\ HasPayment(req.id)
    /\ payments[req.id].status = "pending"
    /\ tokens[payments[req.id].user] = 0

\* ------------------------------------------------------------------- C9
\* C9: a confirm call changes a balance, the ledger or a Payment only when
\* the processor reports succeeded and the Payment with that intent id
\* belongs to the requester; with any other processor status it is answered
\* 400, and with no such Payment of the requester (also when the Payment is
\* another user's) 404, and nothing changes.
C9_ConfirmOnlyOwnSucceeded ==
    [][(req'.op = "confirm") =>
          \A st \in ProcessorStatuses :
              Confirm(req'.user, req'.id, st) =>
                  /\ (st # "succeeded" \/ ~OwnedBy(req'.id, req'.user)) =>
                         UNCHANGED <<tokens, ledger, payments>>
                  /\ (stripe /\ st # "succeeded") => res'.status = 400
                  /\ (stripe /\ st = "succeeded" /\ ~OwnedBy(req'.id, req'.user)) =>
                         res'.status = 404]_vars

\* a user was just refused the confirmation of another user's payment
C9_Witness ==
    /\ req.op = "confirm"
    /\ res = Response(404, "Payment not found")
    /\ HasPayment(req.id)
    /\ payments[req.id].user # req.user
    /\ payments[req.id].status = "pending"

\* ------------------------------------------------------------------ C10
\* C10: a signature-valid payment-failed event sets the matching Payment's
\* status to failed and a dispute-created event sets it to disputed, and
\* nothing else changes (no ledger entry, no balance, earlier credits stay);
\* when no Payment matches the intent id nothing changes at all.
C10_FailureAndDisputeOnlySetStatus ==
    [][(req'.op = "webhook" /\ StripeWebhook(WebhookSecret, req'.kind, req'.id)) =>
          LET id == req'.id
              flipsTo(status) ==
                  /\ tokens' = tokens /\ ledger' = ledger /\ packages' = packages
                  /\ IF HasPayment(id)
                     THEN payments' = [payments EXCEPT ![id].status = status]
                     ELSE payments' = payments
          IN  /\ req'.kind = "payment_intent.payment_failed" => flipsTo("failed")
              /\ req'.kind = "charge.dispute.created" => flipsTo("disputed")]_vars

\* a dispute was just recorded for a payment whose credit is still in place
C10_Witness ==
    /\ req.op = "webhook"
    /\ req.kind = "charge.dispute.created"
    /\ res.status = 200
    /\ HasPayment(req.id)
    /\ payments[req.id].status = "disputed"
    /\ PurchaseEntries(ledger, req.id) = 1
    /\ tokens[payments[req.id].user] = payments[req.id].tokens

\* ------------------------------------------------------------------- C7
\* the package named does not exist, is inactive, has expired at `now`, or
\* user u already has `maxPurchases` succeeded payments for it (the limit
\* counting as set when it is at least `least`)
Unavailable(u, pk, now, least) ==
    LET package == FindPackage(pk) IN
    \/ package = None
    \/ ~Val(package).isActive
    \/ Val(package).expiresAt # None /\ now > Val(Val(package).expiresAt)
    \/ /\ Val(package).maxPurchases # None
       /\ Val(Val(package).maxPurchases) >= least
       /\ CountPurchases(u, pk) >= Val(Val(package).maxPurchases)

C8_CreditEqualsTokensPlusBonusAtCreation ==
    [][/\ (req'.op = "create" /\ Len(payments') = Len(payments) + 1) =>
            LET package == Val(packages[req'.kind])
                created == payments'[Len(payments')]
            IN  /\ created.tokens = package.tokens + package.bonusTokens
                /\ created.status = "pending"
                /\ created.user = req'.user
       /\ \A id \in 1..Len(payments) : payments'[id].tokens = payments[id].tokens
       /\ (req'.op = "confirm" /\ res'.status = 200) =>
            LET id == req'.id
                u == req'.user
            IN  /\ payments[id].status = "pending"
                /\ tokens' = [tokens EXCEPT ![u] = @ + payments[id].tokens]
                /\ OnePurchaseAdded(ledger, ledger', u, id, payments[id].tokens)]_vars

\* a payment was just confirmed and credited at its creation-time amount,
\* which is no longer what the package is worth
C8_Witness ==
    /\ req.op = "confirm"
    /\ res.status = 200
    /\ payments[req.id].status = "succeeded"
    /\ packages[payments[req.id].packageId] # None
    /\ LET package == Val(packages[payments[req.id].packageId])
       IN  package.tokens + package.bonusTokens # payments[req.id].tokens
    /\ tokens[req.user] = payments[req.id].tokens
    /\ PurchaseEntries(ledger, req.id) = 1

\* ------------------------------------------------------------------ C11
WebhookFaultStep ==
    \E k \in SigningKeys, t \in EventTypes, id \in IntentIds, f \in WriteFaults :
        StripeWebhookFailing(k, t, id, f)

\* webhook deliveries against a database that may reject writes
NextWebhookFaults == BuyStep \/ WebhookFaultStep
SpecWebhookFaults == InitPay /\ [][NextWebhookFaults]_vars

\* C11: every webhook request with a valid signature is answered 200
\* {received: true}, whatever the event kind, whether or not a Payment
\* matches and whichever database write of the handler is rejected; an event
\* of an unrecognized kind changes no state; a non-2xx answer is given only
\* when the signature check fails.
C11_ValidSignatureAlwaysReceived ==
    [][(req'.op = "webhook") =>
          \A k \in SigningKeys, f \in WriteFaults :
              StripeWebhookFailing(k, req'.kind, req'.id, f) =>
                  /\ k = WebhookSecret => res' = Response(200, "received")
                  /\ (k = WebhookSecret
                      /\ req'.kind \notin {"payment_intent.succeeded",
                              "payment_intent.payment_failed",
                              "charge.dispute.created"}) =>
                         UNCHANGED <<tokens, ledger, payments, packages>>
                  /\ res'.status \notin 200 .. 299 => k # WebhookSecret]_vars

\* a payment-succeeded event whose balance write was rejected (the payment
\* is marked succeeded, nothing was credited) was just answered `received`
C11_Witness ==
    /\ req.op = "webhook"
    /\ req.kind = "payment_intent.succeeded"
    /\ res = Response(200, "received")
    /\ HasPayment(req.id)
    /\ payments[req.id].status = "succeeded"
    /\ PurchaseEntries(ledger, req.id) = 0
    /\ tokens[payments[req.id].user] = 0

\* ------------------------------------------------------------------ C15
QuoteStep == \E o \in OptionBags : Quote(o)

\* the pricing function called on arbitrary option bags
NextQuotes == QuoteStep
SpecQuotes == InitLedger /\ [][NextQuotes]_vars

\* C15: the mock provider's calculateTokenCost(options) returns
\* round(5 x sizeMultiplier x styleMultiplier) with the multipliers of the
\* static table (512x512: 1, 1024x1024: 1.6; realistic: 1, artistic: 1.4,
\* cartoon: 1.2, anime: 1.3) and multiplier 1 for an absent or unlisted size
\* or style; {size: '1024x1024', style: 'artistic'} costs the integer 11;
\* calls with equal options return equal costs.
C15_CostIsRoundedProduct ==
    LET sizeTenths(k) == CASE k = "512x512" -> 10 [] k = "1024x1024" -> 16
                           [] OTHER -> 10
        styleTenths(k) == CASE k = "realistic" -> 10 [] k = "artistic" -> 14
                            [] k = "cartoon" -> 12 [] k = "anime" -> 13
                            [] OTHER -> 10
        product(o) == 5 * sizeTenths(o.size) * styleTenths(o.style)
    IN  \A i \in 1 .. Len(quotes) :
            LET q == quotes[i] IN
            /\ q.cost # NaN
            /\ 100 * Val(q.cost) - 50 <= product(q.options)
            /\ product(q.options) < 100 * Val(q.cost) + 50
            /\ (q.options.size = "1024x1024" /\ q.options.style = "artistic")
                  => q.cost = Some(11)
            /\ \A j \in 1 .. Len(quotes) :
                  quotes[j].options = q.options =>
                      quotes[j].cost # NaN /\ quotes[j].cost = q.cost

\* ---------------------------------------------------------- generation specs
GenerateStep ==
    \E u \in Users, valid \in BOOLEAN, body \in RequestBodies :
        Generate(u, valid, body)
GenerationSettledStep ==
    \E i \in 1 .. Len(images), outcome \in GenerationOutcomes :
        GenerationSettled(i, outcome)
AdminTokensStep ==
    \E id \in UserIds, a \in GrantAmounts, d \in Descriptions :
        AdminAddTokens(id, a, d)

\* image generation paid from balances the admin grants
NextGenerate == AdminTokensStep \/ GenerateStep \/ GenerationSettledStep
SpecGenerate == InitLedger /\ [][NextGenerate]_vars

\* every balance-changing operation other than spend/add, one at a time,
\* with the processor configured and reachable
DeliveryStep ==
    \E id \in IntentIds :
        StripeWebhook(WebhookSecret, "payment_intent.succeeded", id)
GrantStep ==
    \E u \in Users, a \in {Some(-5), Some(5)} : AdminAddTokens(u, a, "gen")
DebitStep == \E u \in Users, body \in RequestBodies : Generate(u, TRUE, body)

NextReconcile == BuyStep \/ ConfirmStep \/ DeliveryStep \/ GrantStep \/ DebitStep
SpecReconcile == InitReconcile /\ [][NextReconcile]_vars

C13_ChargedUpFront ==
    [][(req'.op = "generate") =>
          \A valid \in BOOLEAN, body \in RequestBodies :
              LET u == req'.user
                  cost == calculateTokenCost(WithDefaults(body))
              IN  (Generate(u, valid, body) /\ cost # NaN) =>
                    /\ (valid /\ tokens[u] >= Val(cost)) =>
                          /\ res'.status = 200
                          /\ images' = Append(images,
                                [user |-> u, status |-> "generating",
                                 tokensUsed |-> Val(cost)])
                          /\ tokens' = [tokens EXCEPT ![u] = @ - Val(cost)]
                          /\ \E d \in DOMAIN ledger' :
                                /\ d.user = u /\ d.type = "spend"
                                /\ d.amount = -Val(cost)
                                /\ ledger' = Insert(ledger, d)
                    /\ tokens[u] < Val(cost) =>
                          /\ res'.status = 400
                          /\ UNCHANGED <<images, tokens, ledger>>]_vars

\* a request costing the whole balance was just accepted: the image is
\* still generating and the balance is already zero
C13_Witness ==
    /\ req.op = "generate"
    /\ res.status = 200
    /\ Len(images) = 1
    /\ images[1] = [user |-> req.user, status |-> "generating", tokensUsed |-> 11]
    /\ tokens[req.user] = 0
    /\ \E d \in DOMAIN ledger : d.user = req.user /\ d.amount = -11

\* ------------------------------------------------------------------ C14
\* C14: when the generation of an image fails, the completion callback only
\* sets that Image's status to failed: balance and ledger stay as the
\* up-front debit left them (no refund entry, no balance increase).
C14_FailedGenerationNoRefund ==
    [][(req'.op = "generationSettled" /\ req'.kind = "failed") =>
          /\ images' = [images EXCEPT ![req'.id].status = "failed"]
          /\ images[req'.id].status = "generating"
          /\ tokens' = tokens
          /\ ledger' = ledger]_vars

\* the generation of an image that cost the whole balance has just failed,
\* and the balance is still zero with the debit as the last ledger entry
C14_Witness ==
    /\ req.op = "generationSettled"
    /\ req.kind = "failed"
    /\ images[req.id].status = "failed"
    /\ images[req.id].tokensUsed = 5
    /\ tokens[req.user] = 0
    /\ BagCardinality(ledger) = 2
    /\ \E d \in DOMAIN ledger : d.user = req.user /\ d.amount = -5

\* ------------------------------------------------------------------ C16
SwitchStep ==
    \E n \in RequestedProviders : \E ok \in InitOutcomes(n) : SwitchProvider(n, ok)
TestStep ==
    \E n \in RequestedProviders : \E ok \in InitOutcomes(n) : TestProvider(n, ok)

\* admin calls on the provider manager, one at a time
NextProviders == SwitchStep \/ TestStep
SpecProviders == InitLedger /\ [][NextProviders]_vars

\* C16: after any testProvider call, whether it reports success or failure
\* (unknown provider name, or the tested provider's initialization
\* throwing), the manager's current provider is the same instance that was
\* current before the call, provided one was set.
C16_TestRestoresProvider ==
    [][(req'.op = "testProvider" /\ manager.currentProvider # NoProvider) =>
          manager'.currentProvider = manager.currentProvider]_vars

\* ------------------------------------------------------------------ C17
\* the request is one the handler passes on to the processor
ReachesProcessor(u, pk, now) == stripe /\ ~Unavailable(u, pk, now, 1)

\* C17 as claimed: create-payment-intent answers 503 both when the
\* processor is not configured and when the intent-creation call fails, and
\* in either case creates no Payment.
C17_Unavailable503 ==
    [][(req'.op = "create") =>
          \A now \in Times, up \in BOOLEAN :
              (/\ CreatePaymentIntent(req'.user, req'.kind, now, up)
               /\ \/ ~stripe
                  \/ ReachesProcessor(req'.user, req'.kind, now) /\ ~up) =>
                  /\ res'.status = 503
                  /\ payments' = payments]_vars

\* C17 as amended: create-payment-intent answers 503 when the processor is
\* not configured, and 500 'Failed to create payment intent' when the
\* intent-creation call fails; in either case no Payment is created.
C17_Unconfigured503Unreachable500 ==
    [][(req'.op = "create") =>
          \A now \in Times, up \in BOOLEAN :
              CreatePaymentIntent(req'.user, req'.kind, now, up) =>
                  /\ ~stripe =>
                        /\ res' = Response(503, "Payment service is not configured")
                        /\ stripeCalls' = {}
                        /\ payments' = payments
                  /\ (ReachesProcessor(req'.user, req'.kind, now) /\ ~up) =>
                        /\ res' = Response(500, "Failed to create payment intent")
                        /\ stripeCalls' = {"paymentIntents.create"}
                        /\ payments' = payments]_vars

\* the processor was called for a purchasable package, the call failed,
\* and there is still no Payment
C17_Witness ==
    /\ req.op = "create"
    /\ res = Response(500, "Failed to create payment intent")
    /\ stripeCalls = {"paymentIntents.create"}
    /\ stripe
    /\ payments = <<>>

\* ------------------------------------------------------------------ C18
SendNotificationStep ==
    \E sch \in Schedules, now \in Times, promises \in 0 .. 2 :
        \E fulfilled \in 0 .. promises :
            SendNotification(sch, now, promises, fulfilled)
ProcessScheduledStep ==
    \E now \in Times, delivered \in SUBSET (1 .. Len(notifications)) :
        ProcessScheduledNotifications(now, delivered)

\* notifications sent at once or on schedule
NextNotify == SendNotificationStep \/ ProcessScheduledStep
SpecNotify == InitLedger /\ [][NextNotify]_vars

\* C18: in every state reachable through sendNotification,
\* deliverNotification and processScheduledNotifications, a notification's
\* deliveryAttempts is at most 3, and status failed implies
\* deliveryAttempts >= 3.
C18_FailedOnlyAtRetryCeiling ==
    \A i \in 1 .. Len(notifications) :
        /\ notifications[i].deliveryAttempts <= 3
        /\ notifications[i].status = "failed" =>
              notifications[i].deliveryAttempts >= 3

\* ------------------------------------------------------------------ C19
\* confirm calls and payment-succeeded deliveries that overlap
NextSettleRace ==
    \/ BuyStep
    \/ \E op \in {"confirm", "webhook"}, u \in Users, id \in IntentIds :
          FindPaymentToSettle(op, u, id)
    \/ \E h \in BagToSet(inflight) : SavePaymentSucceeded(h)
    \/ \E h \in BagToSet(inflight) : LoadUser(h)
    \/ \E h \in BagToSet(inflight) : SaveUserCredited(h)
    \/ \E h \in BagToSet(inflight) : SavePurchaseToken(h)
SpecSettleRace == InitReconcile /\ [][NextSettleRace]_vars

\* C19: the double-processing guard is a read-then-write check with no
\* locking.  A handler (confirm or payment-succeeded webhook) that read the
\* payment as pending goes on to save status succeeded even when another
\* handler has stored succeeded since, and every handler that has saved the
\* status goes on to credit: it appends one more purchase entry that
\* references the payment.  So two overlapping handlers that both read
\* pending leave two purchase entries for the same payment.
C19_StaleGuardCreditsAgain ==
    [][\A h \in BagToSet(inflight) :
          /\ (SavePaymentSucceeded(h) /\ h.seen = "pending") =>
                /\ payments'[h.id].status = "succeeded"
                /\ [h EXCEPT !.pc = "marked"] \in BagToSet(inflight')
          /\ SavePurchaseToken(h) =>
                /\ h.seen = "pending"
                /\ PurchaseEntries(ledger', h.id) = PurchaseEntries(ledger, h.id) + 1]_vars

\* a payment that only ever was pending and succeeded has two purchase
\* entries: one from a confirm call, one from a webhook delivery
C19_Witness ==
    \E id \in 1 .. Len(payments) :
        /\ payments[id].status = "succeeded"
        /\ PurchaseEntries(ledger, id) = 2
        /\ \E d \in DOMAIN ledger : d.paymentId = id /\ d.category = "purchase"
        /\ \E d \in DOMAIN ledger : d.paymentId = id /\ d.category = Null
        /\ inflight = EmptyBag

\* ------------------------------------------------------------------ C20
\* spend requests of one user that overlap, on a balance that add
\* requests fund
NextSpendRace ==
    \/ \E a \in 1 .. MaxAmount : Add("u1", Some(a), "gen")
    \/ \E a \in 1 .. MaxAmount : FindUserToSpend("u1", a)
    \/ \E h \in BagToSet(inflight) : SaveSpend(h)
SpecSpendRace == InitLedger /\ [][NextSpendRace]_vars

\* C20: a spend handler that read a balance covering its amount appends
\* its debit entry and stores (balance read - amount), whatever the balance
\* stored by then; so two overlapping spends that each fit the balance
\* alone, but not together, are both accepted, and the ledger's debits
\* total more than the balance that was available.
C20_StaleBalanceDebitsAgain ==
    [][\A h \in BagToSet(inflight) :
          (SaveSpend(h) /\ h.balance >= h.amount) =>
              /\ \E d \in DOMAIN ledger' :
                    /\ d.user = h.user /\ d.type = "spend"
                    /\ d.amount = -h.amount
                    /\ ledger' = Insert(ledger, d)
              /\ tokens'[h.user] = h.balance - h.amount]_vars

\* a user funded with 2 tokens has been debited 2 and 1: both spends were
\* accepted and the ledger sums to less than nothing
C20_Witness ==
    \E u \in Users :
        /\ CountWhere(ledger, LAMBDA d : d.user = u) = 3
        /\ \E d \in DOMAIN ledger : d.user = u /\ d.type = "bonus" /\ d.amount = 2
        /\ \E d \in DOMAIN ledger : d.user = u /\ d.type = "spend" /\ d.amount = -2
        /\ \E d \in DOMAIN ledger : d.user = u /\ d.type = "spend" /\ d.amount = -1
        /\ SumAmounts(ledger, u) < 0
        /\ tokens[u] >= 0
        /\ inflight = EmptyBag

\* ------------------------------------------------------------------ C21
\* one user's spend, add, generate, confirm and payment-succeeded handlers
\* that overlap, one request of each kind in flight at a time (overlapping
\* requests of one kind are SpecSettleRace and SpecSpendRace)
NextBalanceRace ==
    \/ CreatePaymentIntent("u1", "pk1", 1, TRUE)
    \/ \E op \in {"confirm", "webhook"} :
          /\ \A h \in BagToSet(inflight) : h.op # op
          /\ FindPaymentToSettle(op, "u1", 1)
    \/ \E h \in BagToSet(inflight) : SavePaymentSucceeded(h)
    \/ \E h \in BagToSet(inflight) : LoadUser(h)
    \/ \E h \in BagToSet(inflight) : SaveUserCredited(h)
    \/ \E h \in BagToSet(inflight) : SavePurchaseToken(h)
    \/ /\ \A h \in BagToSet(inflight) : h.op # "spend"
       /\ FindUserToSpend("u1", 2)
    \/ \E h \in BagToSet(inflight) : SaveSpend(h)
    \/ \E a \in {1, 2} :
          /\ \A h \in BagToSet(inflight) : h.op # "add"
          /\ FindUserToAdd("u1", a)
    \/ \E h \in BagToSet(inflight) : SaveAdd(h)
    \/ /\ \A h \in BagToSet(inflight) : h.op # "generate"
       /\ FindUserToGenerate("u1", [size |-> Null, style |-> Null])
    \/ \E h \in BagToSet(inflight) : SaveGenerate(h)
SpecBalanceRace == InitReconcile /\ [][NextBalanceRace]_vars

C22_WebhookCreditsAsConfirm ==
    [][\A id \in IntentIds :
          (HasPayment(id) /\ req'.op = "webhook" /\ req'.id = id
           /\ StripeWebhook(WebhookSecret, "payment_intent.succeeded", id)) =>
              LET u == payments[id].user IN
              /\ payments[id].status = "pending" =>
                    /\ payments' = [payments EXCEPT ![id].status = "succeeded"]
                    /\ tokens' = [tokens EXCEPT ![u] = @ + payments[id].tokens]
                    /\ ledger' = Insert(ledger, ConfirmToken(u, payments[id]))
              /\ payments[id].status = "succeeded" =>
                    UNCHANGED <<tokens, ledger, payments>>]_vars

\* ------------------------------------------------------------------ C23
\* a package that each user may buy once
LimitedPackage == Package(2, 1, TRUE, None, Some(1))

InitLimit ==
    /\ tokens = [u \in Users |-> 0]
    /\ ledger = EmptyBag
    /\ payments = <<>>
    /\ packages = [p \in PackageIds |-> Some(LimitedPackage)]
    /\ stripe = TRUE
    /\ req = NoReq
    /\ res = NoRes
    /\ stripeCalls = {}
    /\ InitServices

\* purchases of the limited package, settled by confirm calls and webhook
\* events, one request at a time
NextLimit ==
    \/ \E u \in Users : CreatePaymentIntentUpTo(MaxOpenIntents, u, "pk1", 1, TRUE)
    \/ \E u \in Users, id \in 1 .. MaxOpenIntents, st \in ProcessorStatuses :
          Confirm(u, id, st)
    \/ \E t \in EventTypes, id \in 1 .. MaxOpenIntents :
          StripeWebhook(WebhookSecret, t, id)
SpecLimit == InitLimit /\ [][NextLimit]_vars

\* C23: for every user and every package with maxPurchases set, the number
\* of the user's succeeded Payments for the package never exceeds
\* maxPurchases.
C23_PurchaseLimitHolds ==
    \A u \in Users, pk \in PackageIds :
        (packages[pk] # None /\ Val(packages[pk]).maxPurchases # None) =>
            CountPurchases(u, pk) <= Val(Val(packages[pk]).maxPurchases)

\* ------------------------------------------------------------------ C24
\* role changes, status toggles and deletions, one request at a time
NextAdminUsers ==
    \/ \E r \in AccountIds, param \in UserIdParams, role \in RequestedRoles :
          UpdateUserRole(r, param, role)
    \/ \E r \in AccountIds, param \in UserIdParams : ToggleUserStatus(r, param)
    \/ \E r \in AccountIds, param \in UserIdParams : DeleteUser(r, param)
SpecAdminUsers == InitLedger /\ [][NextAdminUsers]_vars

\* C24: an administrative request cannot target the requester's own
\* account.  A role change or status toggle by an admin, or a deletion by a
\* super admin, whose userId names the requester's own account is answered
\* 400 and changes nothing; so no request that is let through the
\* authorization middleware changes the requester's own account.
C24_OwnAccountUntouched ==
    [][\A r \in AccountIds, param \in UserIdParams :
          LET own == CastObjectId(param) = r
              acts == \/ \E role \in RequestedRoles : UpdateUserRole(r, param, role)
                      \/ ToggleUserStatus(r, param)
                      \/ DeleteUser(r, param)
          IN  (req'.user = r /\ acts /\ res'.status \notin {401, 403}) =>
                 /\ own => res'.status = 400
                 /\ accounts'[r] = accounts[r]]_vars

\* ------------------------------------------------------------------ C25
\* switchProvider calls (each within one turn of the event loop) while
\* testProvider('openai') calls wait for their import or their status call
NextProviderRace ==
    \/ BeginTestProvider
    \/ \E h \in BagToSet(inflight), imported \in BOOLEAN : TestImported(h, imported)
    \/ \E h \in BagToSet(inflight) : TestListed(h)
    \/ \E n \in RequestedProviders : \E ok \in InitOutcomes(n) : SwitchProvider(n, ok)
SpecProviderRace == InitLedger /\ [][NextProviderRace]_vars

\* C25: when a switchProvider call has run to completion while a
\* testProvider call was suspended at an await, the test, as it finishes,
\* leaves the provider that was current before it began as the current
\* provider, and not the one the switch installed: the switch is lost.
C25_CompletedSwitchIsLost ==
    [][\A h \in BagToSet(inflight) :
          ((\/ \E imported \in BOOLEAN : TestImported(h, imported)
            \/ TestListed(h))
           /\ req.op = "switchProvider" /\ res.status = 200
           /\ req'.op = "testProvider") =>
              /\ manager'.currentProvider = h.originalProvider
              /\ manager'.currentProvider # manager.currentProvider]_vars

\* ------------------------------------------------------------------ C26
\* generation requests of a funded user while admins switch and test
\* providers
NextGenerateRace ==
    \/ AdminAddTokens("u1", Some(5), "gen")
    \/ FindUserToGenerate("u1", [size |-> Null, style |-> Null])
    \/ \E h \in BagToSet(inflight) : SaveGenerate(h)
    \/ \E n \in RequestedProviders : \E ok \in InitOutcomes(n) : SwitchProvider(n, ok)
    \/ \E n \in RequestedProviders : \E ok \in InitOutcomes(n) : TestProvider(n, ok)
SpecGenerateRace == InitLedger /\ [][NextGenerateRace]_vars

\* C26: the provider that priced a generation request is the provider whose
\* generateImage is called for it, also when a switchProvider or
\* testProvider call has run between the pricing and the start of the
\* generation.
C26_PricedByGeneratingProvider ==
    [][\A h \in BagToSet(inflight) :
          (SaveGenerate(h) /\ Len(images') = Len(images) + 1) =>
              manager.currentProvider.name = h.seen]_vars

\* ------------------------------------------------------------------ C27
\* generation requests of funded users and the callbacks of their
\* generations; a generation that was started settles in the end (the
\* provider call returns or throws)
NextLifecycle ==
    \/ \E u \in Users : AdminAddTokens(u, Some(5), "gen")
    \/ \E u \in Users, body \in RequestBodies : Generate(u, TRUE, body)
    \/ \E i \in 1 .. MaxLedger, outcome \in GenerationOutcomes :
          GenerationSettled(i, outcome)
SpecLifecycle ==
    /\ InitLedger
    /\ [][NextLifecycle]_vars
    /\ \A i \in 1 .. MaxLedger :
          WF_vars(\E outcome \in GenerationOutcomes : GenerationSettled(i, outcome))

\* C27: an Image is created in status generating; it eventually is
\* completed or failed; a completed or failed Image keeps its status, so it
\* never is generating again.
C27_GeneratingThenSettledForGood ==
    /\ [][Len(images') > Len(images) =>
             /\ Len(images') = Len(images) + 1
             /\ images'[Len(images')].status = "generating"]_vars
    /\ \A i \in 1 .. MaxLedger :
          (i <= Len(images) /\ images[i].status = "generating")
             ~> (i <= Len(images) /\ images[i].status \in {"completed", "failed"})
    /\ [][\A i \in 1 .. Len(images) :
             images[i].status \in {"completed", "failed"} =>
                 images'[i].status = images[i].status]_vars

\* a generation has settled: its Image is completed
C27_Witness ==
    /\ req.op = "generationSettled"
    /\ \E i \in 1 .. Len(images) : images[i].status = "completed"

\* ------------------------------------------------------------------ C28
\* the server from its start: the manager is initialized with the
\* configured provider, then the routes serve requests
InitStartup ==
    /\ tokens = [u \in Users |-> 0]
    /\ ledger = EmptyBag
    /\ payments = <<>>
    /\ packages = [p \in PackageIds |-> None]
    /\ stripe = TRUE
    /\ req = NoReq
    /\ res = NoRes
    /\ stripeCalls = {}
    /\ images = <<>>
    /\ manager = ConstructedManager
    /\ notifications = <<>>
    /\ inflight = EmptyBag
    /\ quotes = <<>>
    /\ accounts = StartedAccounts

NextStartup ==
    \/ \E n \in RequestedProviders : \E ok \in InitOutcomes(n) :
          InitializeAIProvider(n, ok)
    \/ req # NoReq /\ \E u \in Users : AdminAddTokens(u, Some(5), "gen")
    \/ req # NoReq /\ \E u \in Users, body \in RequestBodies : Generate(u, TRUE, body)
    \/ req # NoReq /\ \E n \in RequestedProviders : \E ok \in InitOutcomes(n) :
          SwitchProvider(n, ok)
SpecStartup == InitStartup /\ [][NextStartup]_vars

\* C28: when the initialization of the manager fails at server start (the
\* configured name is not registered, or the provider's initialize
\* rejects), the server goes on with the mock provider: after the start the
\* manager's current provider is an initialized mock provider.
C28_FallsBackToMock ==
    [][\A n \in RequestedProviders : \A ok \in InitOutcomes(n) :
          (InitializeAIProvider(n, ok) /\ SetProviderThrows(n, ok)) =>
              /\ manager'.currentProvider.name = "mock"
              /\ manager'.currentProvider.initialized]_vars

\* ------------------------------------------------------------------ C29
\* C29: POST /admin/users/:userId/tokens only ever adds.  A request with a
\* zero or negative amount is answered 400 and changes neither balance nor
\* ledger, so no request lowers a balance or leaves one negative.
C29_AdminOnlyAdds ==
    [][\A userId \in UserIds, amount \in GrantAmounts, d \in Descriptions :
          (req'.op = "adminTokens" /\ AdminAddTokens(userId, amount, d)) =>
              /\ (amount # None /\ Val(amount) <= 0) =>
                    /\ res'.status = 400
                    /\ UNCHANGED <<tokens, ledger>>
              /\ \A u \in Users : tokens'[u] >= tokens[u] /\ tokens'[u] >= 0]_vars

\* ------------------------------------------------------------------ C30
\* C30: sendNotification for an existing user, not scheduled in the future,
\* leaves the notification failed only when at least one delivery channel
\* was attempted and every attempted channel failed; with neither email nor
\* push attempted (an in-app notification) the notification is not failed
\* and its deliveryAttempts is still 0.
C30_InAppOnlyNotFailed ==
    [][\A scheduledFor \in Schedules, now \in Times, promises \in 0 .. 2 :
          \A fulfilled \in 0 .. promises :
              (SendNotification(scheduledFor, now, promises, fulfilled)
               /\ (scheduledFor = None \/ Val(scheduledFor) <= now)) =>
                  LET sent == notifications'[Len(notifications')] IN
                  /\ sent.status = "failed" <=> (promises > 0 /\ fulfilled = 0)
                  /\ promises = 0 => sent.deliveryAttempts = 0]_vars

====
